---- MODULE Spec2Model ----
(***************************************************************************)
(* Model of scripts/validate-markdown.py: MarkdownValidator.validate_file, *)
(* validate_directory, run, and main.                                      *)
(*                                                                         *)
(* Text is modelled as sequences of one-character strings, so that strip,  *)
(* startswith, endswith, split, join and the regular expressions are       *)
(* computed on characters as Python computes them.  List indices are       *)
(* 0-based as in the source; At(l, i) reads l[i].                          *)
(***************************************************************************)
EXTENDS Integers, Sequences, FiniteSets, TLC

(***************************************************************************)
(* Bounds of the model.                                                    *)
(***************************************************************************)
MaxLen == 3      \* lines per file in the single-file specification
MaxRuns == 2     \* invocations of the program in the single-file specification
MaxFiles == 2    \* files in the walked directory

(***************************************************************************)
(* Characters and Python string primitives.                                *)
(***************************************************************************)
NL == "\n"
Whitespace == {" ", "\t", NL}
Digits == {"0", "1", "2", "3", "4", "5", "6", "7", "8", "9"}

Drop(s, n) == SubSeq(s, n + 1, Len(s))

StartsWith(s, p) == Len(s) >= Len(p) /\ SubSeq(s, 1, Len(p)) = p

EndsWith(s, p) == Len(s) >= Len(p) /\ SubSeq(s, Len(s) - Len(p) + 1, Len(s)) = p

RECURSIVE LStrip(_)
LStrip(s) == IF s # <<>> /\ Head(s) \in Whitespace THEN LStrip(Tail(s)) ELSE s

RECURSIVE RStrip(_)
RStrip(s) ==
    IF s # <<>> /\ s[Len(s)] \in Whitespace THEN RStrip(SubSeq(s, 1, Len(s) - 1)) ELSE s

Strip(s) == RStrip(LStrip(s))

Contains(s, p) == \E k \in 1..(Len(s) - Len(p) + 1) : SubSeq(s, k, k + Len(p) - 1) = p

\* content.split('\n')
RECURSIVE SplitAcc(_, _, _)
SplitAcc(s, cur, acc) ==
    IF s = <<>> THEN Append(acc, cur)
    ELSE IF Head(s) = NL THEN SplitAcc(Tail(s), <<>>, Append(acc, cur))
    ELSE SplitAcc(Tail(s), Append(cur, Head(s)), acc)

Split(s) == SplitAcc(s, <<>>, <<>>)

\* '\n'.join(lines)
RECURSIVE Join(_)
Join(ls) ==
    IF ls = <<>> THEN <<>>
    ELSE IF Len(ls) = 1 THEN ls[1]
    ELSE ls[1] \o <<NL>> \o Join(Tail(ls))

\* lines[i], 0-based
At(l, i) == l[i + 1]

\* lines.insert(idx, x)
ListInsert(l, idx, x) == SubSeq(l, 1, idx) \o <<x>> \o SubSeq(l, idx + 1, Len(l))

\* lines.pop(idx)
ListPop(l, idx) == SubSeq(l, 1, idx) \o SubSeq(l, idx + 2, Len(l))

\* lines[idx] = x
ListSet(l, idx, x) == [l EXCEPT ![idx + 1] = x]

(***************************************************************************)
(* The regular expressions of the source.                                  *)
(***************************************************************************)
\* re.match(r'^\d+\.\s+\*\*.*\*\*:', s): digits, '.', whitespace, '**',
\* anything, '**:'; anchored at the start only.
HeaderMatch(s) ==
    \E d \in 1..Len(s) :
        /\ \A j \in 1..d : s[j] \in Digits
        /\ d + 1 <= Len(s)
        /\ s[d + 1] = "."
        /\ \E w \in 1..Len(s) :
            /\ d + 1 + w + 2 <= Len(s)
            /\ \A j \in (d + 2)..(d + 1 + w) : s[j] \in Whitespace
            /\ s[d + 2 + w] = "*"
            /\ s[d + 3 + w] = "*"
            /\ \E q \in (d + 4 + w)..(Len(s) - 2) :
                /\ s[q] = "*"
                /\ s[q + 1] = "*"
                /\ s[q + 2] = ":"
                /\ \A j \in (d + 4 + w)..(q - 1) : s[j] # NL

Labels ==
    { <<"T", "y", "p", "e">>,
      <<"I", "m", "p", "a", "c", "t">>,
      <<"E", "x", "a", "m", "p", "l", "e">>,
      <<"P", "u", "r", "p", "o", "s", "e">>,
      <<"N", "o", "t", "e">>,
      <<"D", "e", "f", "a", "u", "l", "t">>,
      <<"U", "s", "a", "g", "e">>,
      <<"D", "e", "s", "c", "r", "i", "p", "t", "i", "o", "n">> }

\* re.search(r'(Type|Impact|Example|Purpose|Note|Default|Usage|Description):', s)
LabelSearch(s) == \E lab \in Labels : Contains(s, lab \o <<":">>)

(***************************************************************************)
(* validate_file: the five checks and their fixes.                         *)
(***************************************************************************)
Msg1 == "Missing blank line before list"
Msg2 == "Inconsistent nested bullet indentation (should be 4 spaces)"
Msg2b == "Numbered list sub-bullet has wrong indentation (should be 4 spaces)"
Msg2c == "Extra blank line between numbered item and sub-bullets"
Msg3 == "Configuration parameter may be missing Type/Default/Impact details"
MsgErr == "Error reading file"

\* f"Line {line_num}: {msg}"
Issue(line_num, msg) == [line_num |-> line_num, msg |-> msg]

\* f"Error reading file: {e}"
ErrorIssue == [line_num |-> 0, msg |-> MsgErr]

Dash == <<"-", " ">>
Star == <<"*", " ">>
Sp2Dash == <<" ", " ", "-", " ">>
Sp3Dash == <<" ", " ", " ", "-", " ">>
Sp4Dash == <<" ", " ", " ", " ", "-", " ">>
Sp4 == <<" ", " ", " ", " ">>
Sp4DashType == <<" ", " ", " ", " ", "-", " ", "T", "y", "p", "e", ":">>

\* Check1Cond without the '* ' alternative
Check1Cond_DashOnly(lines, i, line) ==
    /\ EndsWith(Strip(line), <<":">>)
    /\ i + 1 < Len(lines)
    /\ StartsWith(Strip(At(lines, i + 1)), Dash)

Check1Cond(lines, i, line) ==
    /\ EndsWith(Strip(line), <<":">>)
    /\ i + 1 < Len(lines)
    /\ \/ StartsWith(Strip(At(lines, i + 1)), Dash)
       \/ StartsWith(Strip(At(lines, i + 1)), Star)

\* Check1Fix inserting one position too far
Check1Fix_OffByOne(lines, i) == ListInsert(lines, i + 2, <<>>)

Check1Fix(lines, i) == ListInsert(lines, i + 1, <<>>)

Check2Cond(line) ==
    /\ StartsWith(line, Sp2Dash)
    /\ ~StartsWith(line, Sp4Dash)
    /\ LabelSearch(line)

\* Check2Fix indenting by 3 spaces
Check2Fix_ThreeSpaces(lines, i, line) == ListSet(lines, i, <<" ", " ", " ">> \o Drop(line, 2))

Check2Fix(lines, i, line) == ListSet(lines, i, Sp4 \o Drop(line, 2))

Check2bCond(lines, i, line) ==
    /\ StartsWith(line, Sp3Dash)
    /\ ~StartsWith(line, Sp4Dash)
    /\ i > 0
    /\ HeaderMatch(IF i >= 2 THEN Strip(At(lines, i - 2)) ELSE <<>>)

Check2bFix(lines, i, line) == ListSet(lines, i, Sp4 \o Drop(line, 3))

Check2cCond(lines, i, line) ==
    /\ Strip(line) = <<>>
    /\ i > 0
    /\ i + 1 < Len(lines)
    /\ HeaderMatch(Strip(At(lines, i - 1)))
    /\ StartsWith(Strip(At(lines, i + 1)), Sp3Dash)

Check2cFix(lines, i) == ListPop(lines, i)

Check3Cond(lines, i, line) ==
    /\ HeaderMatch(Strip(line))
    /\ i + 1 < Len(lines)
    /\ ~StartsWith(Strip(At(lines, i + 1)), Sp4DashType)
    /\ ~(Strip(At(lines, i + 1)) = <<>>)

\* file_issues.append(issue); in fix mode apply the fix and set modified
Fire(st, msg, fix, newLines) ==
    [st EXCEPT !.file_issues = Append(@, Issue(st.i + 1, msg)),
               !.lines = IF fix THEN newLines ELSE @,
               !.modified = IF fix THEN TRUE ELSE @]

Apply1(st, line, fix) ==
    IF Check1Cond(st.lines, st.i, line)
    THEN Fire(st, Msg1, fix, Check1Fix(st.lines, st.i)) ELSE st

Apply2(st, line, fix) ==
    IF Check2Cond(line)
    THEN Fire(st, Msg2, fix, Check2Fix(st.lines, st.i, line)) ELSE st

Apply2b(st, line, fix) ==
    IF Check2bCond(st.lines, st.i, line)
    THEN Fire(st, Msg2b, fix, Check2bFix(st.lines, st.i, line)) ELSE st

Apply2c(st, line, fix) ==
    IF Check2cCond(st.lines, st.i, line)
    THEN Fire(st, Msg2c, fix, Check2cFix(st.lines, st.i)) ELSE st

Apply3(st, line, fix) ==
    IF Check3Cond(st.lines, st.i, line)
    THEN [st EXCEPT !.file_issues = Append(@, Issue(st.i + 1, Msg3))] ELSE st

\* One iteration of "for i, line in enumerate(lines)": line is bound once,
\* the checks run in order on the list as mutated so far.
Body(st, fix) ==
    LET line == At(st.lines, st.i)
    IN  Apply3(Apply2c(Apply2b(Apply2(Apply1(st, line, fix), line, fix), line, fix),
                       line, fix), line, fix)

\* The loop: the list iterator compares its index with the current length.
RECURSIVE Scan(_, _)
Scan(st, fix) ==
    IF st.i >= Len(st.lines) THEN st
    ELSE Scan([Body(st, fix) EXCEPT !.i = @ + 1], fix)

ScanStart(content) ==
    [lines |-> Split(content), i |-> 0, file_issues |-> <<>>, modified |-> FALSE]

\* What the console shows, one record per print call.
Out(tag, file, n, issue) == [tag |-> tag, file |-> file, n |-> n, issue |-> issue]

NoIssue == Issue(0, "")

\* ValidateFile whose error path keeps the issues collected so far
ValidateFile_KeepIssues(f, idx, fix) ==
    IF f.io = "noread"
    THEN [issues |-> <<ErrorIssue>>, content |-> f.content, printed |-> <<>>]
    ELSE LET st == Scan(ScanStart(f.content), fix)
         IN  IF st.modified /\ fix
             THEN IF f.io = "nowrite"
                  THEN [issues |-> Append(st.file_issues, ErrorIssue),
                        content |-> f.content, printed |-> <<>>]
                  ELSE [issues |-> st.file_issues, content |-> Join(st.lines),
                        printed |-> <<Out("fixed", idx, Len(st.file_issues), NoIssue)>>]
             ELSE [issues |-> st.file_issues, content |-> f.content,
                   printed |-> <<>>]

\* validate_file(filepath): returned issues, the file's content afterwards,
\* and what it printed.
ValidateFile(f, idx, fix) ==
    IF f.io = "noread"
    THEN [issues |-> <<ErrorIssue>>, content |-> f.content, printed |-> <<>>]
    ELSE LET st == Scan(ScanStart(f.content), fix)
         IN  IF st.modified /\ fix
             THEN IF f.io = "nowrite"
                  THEN [issues |-> <<ErrorIssue>>, content |-> f.content,
                        printed |-> <<>>]
                  ELSE [issues |-> st.file_issues, content |-> Join(st.lines),
                        printed |-> <<Out("fixed", idx, Len(st.file_issues), NoIssue)>>]
             ELSE [issues |-> st.file_issues, content |-> f.content,
                   printed |-> <<>>]

(***************************************************************************)
(* The lines the checked files are built from, and the file system.        *)
(***************************************************************************)
LBlank == <<>>
LColon == <<"a", ":">>
LDash == <<"-", " ", "a">>
LStar == <<"*", " ", "a">>
LSp2Type == <<" ", " ", "-", " ", "T", "y", "p", "e", ":">>
LSp3 == <<" ", " ", " ", "-", " ", "b">>
LHeader == <<"1", ".", " ", "*", "*", "A", "*", "*", ":">>
LSp4Type == <<" ", " ", " ", " ", "-", " ", "T", "y", "p", "e", ":">>
LText == <<"t">>

LineSet == {LBlank, LColon, LDash, LStar, LSp2Type, LSp3, LHeader, LSp4Type, LText}

\* every text of 1..MaxLen lines of LineSet
Contents == {Join(ls) : ls \in UNION {[1..n -> LineSet] : n \in 1..MaxLen}}

\* texts used when a whole directory is walked
DirContents ==
    { Join(<<LText>>), Join(<<LColon, LDash>>), Join(<<LHeader, LText>>) }

\* "noread": open(filepath, 'r') or f.read() raises; "nowrite": open(filepath, 'w')
\* raises, leaving the file as it was
IOModes == {"ok", "noread", "nowrite"}

File(md, io, content) == [md |-> md, io |-> io, content |-> content]

DirFiles == [md : BOOLEAN, io : IOModes, content : DirContents]

NoExit == -1

VARIABLES
    target,            \* what args.path names: "file", "dir" or "invalid"
    fs,                \* the files under the target, in os.walk order
    fix_mode,          \* args.fix / self.fix_mode
    pc,                \* position of main
    k,                 \* next file of the directory walk (1-based)
    total_issues,      \* validate_directory / run: total_issues
    files_with_issues, \* validate_directory / run: files_with_issues
    stdout,            \* what this invocation printed
    exit_code,         \* exit status of the invocation, NoExit while running
    results,           \* what validate_file returned, per validated file
    before,            \* fs when the invocation started
    runs,              \* completed invocations
    hist               \* the completed invocations

vars == <<target, fs, fix_mode, pc, k, total_issues, files_with_issues, stdout,
          exit_code, results, before, runs, hist>>

InitCommon ==
    /\ fix_mode = FALSE
    /\ pc = "start"
    /\ k = 1
    /\ total_issues = 0
    /\ files_with_issues = 0
    /\ stdout = <<>>
    /\ exit_code = NoExit
    /\ results = <<>>
    /\ before = fs
    /\ runs = 0
    /\ hist = <<>>

\* one readable, writable file named on the command line
Init ==
    /\ target = "file"
    /\ fs \in {<<File(TRUE, "ok", c)>> : c \in Contents}
    /\ InitCommon

\* a directory of up to MaxFiles files, a single file, or an invalid path
InitDir ==
    /\ target \in {"file", "dir", "invalid"}
    /\ fs \in UNION {[1..n -> DirFiles] : n \in 0..MaxFiles}
    /\ target = "file" => Len(fs) = 1
    /\ target = "invalid" => fs = <<>>
    /\ InitCommon

(***************************************************************************)
(* main, run and validate_directory.                                       *)
(***************************************************************************)
\* for issue in issues: print(f"   {issue}")
RECURSIVE PrintIssues(_, _)
PrintIssues(idx, issues) ==
    IF issues = <<>> THEN <<>>
    ELSE <<Out("issue", idx, 0, Head(issues))>> \o PrintIssues(idx, Tail(issues))

\* the report-mode listing of one file's issues
Report(idx, issues, fix) ==
    IF issues # <<>> /\ ~fix
    THEN <<Out("file", idx, 0, NoIssue)>> \o PrintIssues(idx, issues)
    ELSE <<>>

\* main up to the call of validator.run: parse the arguments
MainStart ==
    /\ pc = "start"
    /\ \E f \in BOOLEAN : fix_mode' = f
    /\ pc' = "run"
    /\ k' = 1
    /\ total_issues' = 0
    /\ files_with_issues' = 0
    /\ stdout' = <<>>
    /\ exit_code' = NoExit
    /\ results' = <<>>
    /\ before' = fs
    /\ UNCHANGED <<target, fs, runs, hist>>

\* run: os.path.isfile(target_path)
RunFile ==
    /\ pc = "run"
    /\ target = "file"
    /\ LET r == ValidateFile(fs[1], 1, fix_mode)
       IN  /\ fs' = [fs EXCEPT ![1].content = r.content]
           /\ stdout' = stdout \o r.printed \o Report(1, r.issues, fix_mode)
           /\ results' = Append(results, [file |-> 1, issues |-> r.issues])
           /\ total_issues' = Len(r.issues)
           /\ files_with_issues' = IF r.issues # <<>> THEN 1 ELSE 0
    /\ pc' = "summary"
    /\ UNCHANGED <<target, fix_mode, k, exit_code, before, runs, hist>>

\* run: os.path.isdir(target_path); validate_directory starts its walk
RunDir ==
    /\ pc = "run"
    /\ target = "dir"
    /\ k' = 1
    /\ total_issues' = 0
    /\ files_with_issues' = 0
    /\ pc' = "walk"
    /\ UNCHANGED <<target, fs, fix_mode, stdout, exit_code, results, before, runs, hist>>

\* validate_directory: a file whose name does not end in '.md'
WalkSkip ==
    /\ pc = "walk"
    /\ k <= Len(fs)
    /\ ~fs[k].md
    /\ k' = k + 1
    /\ UNCHANGED <<target, fs, fix_mode, pc, total_issues, files_with_issues, stdout,
                   exit_code, results, before, runs, hist>>

\* validate_directory: a '.md' file
WalkValidate ==
    /\ pc = "walk"
    /\ k <= Len(fs)
    /\ fs[k].md
    /\ LET r == ValidateFile(fs[k], k, fix_mode)
       IN  /\ fs' = [fs EXCEPT ![k].content = r.content]
           /\ stdout' = stdout \o r.printed \o Report(k, r.issues, fix_mode)
           /\ results' = Append(results, [file |-> k, issues |-> r.issues])
           /\ total_issues' =
                 IF r.issues # <<>> THEN total_issues + Len(r.issues) ELSE total_issues
           /\ files_with_issues' =
                 IF r.issues # <<>> THEN files_with_issues + 1 ELSE files_with_issues
    /\ k' = k + 1
    /\ UNCHANGED <<target, fix_mode, pc, exit_code, before, runs, hist>>

\* validate_directory: return total_issues, files_with_issues
WalkReturn ==
    /\ pc = "walk"
    /\ k > Len(fs)
    /\ pc' = "summary"
    /\ UNCHANGED <<target, fs, fix_mode, k, total_issues, files_with_issues, stdout,
                   exit_code, results, before, runs, hist>>

\* run: neither a file nor a directory
RunInvalid ==
    /\ pc = "run"
    /\ target = "invalid"
    /\ stdout' = Append(stdout, Out("invalid", 0, 0, NoIssue))
    /\ total_issues' = 0
    /\ files_with_issues' = 0
    /\ pc' = "summary"
    /\ UNCHANGED <<target, fs, fix_mode, k, exit_code, results, before, runs, hist>>

\* the summary main prints
Summary(fix, total, nfiles) ==
    IF fix
    THEN <<Out("fix_mode", 0, 0, NoIssue)>> \o
         (IF total > 0 THEN <<Out("fixed_total", nfiles, total, NoIssue)>>
          ELSE <<Out("nothing_to_fix", 0, 0, NoIssue)>>)
    ELSE <<Out("summary", nfiles, total, NoIssue)>> \o
         (IF total > 0 THEN <<Out("hint", 0, 0, NoIssue)>>
          ELSE <<Out("all_ok", 0, 0, NoIssue)>>)

\* ExitCode that forgets fix mode
ExitCode_IgnoreFix(fix, total) == IF total > 0 THEN 1 ELSE 0

\* the status the process ends with
ExitCode(fix, total) == IF fix THEN 0 ELSE IF total > 0 THEN 1 ELSE 0

\* main after validator.run returned: print the summary and exit
MainExit ==
    /\ pc = "summary"
    /\ stdout' = stdout \o Summary(fix_mode, total_issues, files_with_issues)
    /\ exit_code' = ExitCode(fix_mode, total_issues)
    /\ pc' = "exited"
    /\ runs' = runs + 1
    /\ hist' = Append(hist, [fix |-> fix_mode, before |-> before, after |-> fs,
                             results |-> results, out |-> stdout',
                             total |-> total_issues, nfiles |-> files_with_issues,
                             code |-> exit_code'])
    /\ UNCHANGED <<target, fs, fix_mode, k, total_issues, files_with_issues, results,
                   before>>

\* the user runs the program again on the same path
Rerun ==
    /\ pc = "exited"
    /\ runs < MaxRuns
    /\ pc' = "start"
    /\ UNCHANGED <<target, fs, fix_mode, k, total_issues, files_with_issues, stdout,
                   exit_code, results, before, runs, hist>>

Next == MainStart \/ RunFile \/ MainExit \/ Rerun

Spec == Init /\ [][Next]_vars

NextDir == MainStart \/ RunFile \/ RunDir \/ WalkSkip \/ WalkValidate \/ WalkReturn
           \/ RunInvalid \/ MainExit

SpecDir == InitDir /\ [][NextDir]_vars

(***************************************************************************)
(* Vocabulary of the properties.  Lines are numbered from 1 as in the      *)
(* issue texts; L is the line sequence of a file before an invocation.     *)
(***************************************************************************)
LinesBefore(h) == Split(h.before[1].content)
LinesAfter(h) == Split(h.after[1].content)
IssuesOf(h) == h.results[1].issues

Count(issues, n, msg) ==
    Cardinality({x \in 1..Len(issues) : issues[x] = Issue(n, msg)})

CountMsg(issues, msg) ==
    Cardinality({x \in 1..Len(issues) : issues[x].msg = msg})

IsBullet(l) == StartsWith(Strip(l), Dash) \/ StartsWith(Strip(l), Star)

\* line j ends with ':' and line j+1 is a bulleted line
ColonBeforeList(L, j) ==
    /\ j < Len(L)
    /\ EndsWith(Strip(L[j]), <<":">>)
    /\ IsBullet(L[j + 1])

\* where line j of the input stands after blank lines were inserted behind
\* every earlier ColonBeforeList line
Pos(L, j) == j + Cardinality({x \in 1..(j - 1) : ColonBeforeList(L, x)})

\* line j is a 3-space sub-bullet two rows below a numbered bold header
SubBulletUnderHeader(L, j) ==
    /\ j >= 3
    /\ j <= Len(L)
    /\ StartsWith(L[j], Sp3Dash)
    /\ HeaderMatch(Strip(L[j - 2]))

\* line j is blank, between a numbered bold header and a 3-space sub-bullet
BlankSandwich(L, j) ==
    /\ j >= 2
    /\ j < Len(L)
    /\ Strip(L[j]) = <<>>
    /\ HeaderMatch(Strip(L[j - 1]))
    /\ StartsWith(L[j + 1], Sp3Dash)

\* line j is a header whose next line is neither blank nor '    - Type:'
HeaderWithoutDetails(L, j) ==
    /\ j < Len(L)
    /\ HeaderMatch(Strip(L[j]))
    /\ Strip(L[j + 1]) # <<>>
    /\ ~StartsWith(L[j + 1], Sp4DashType)

Runs == 1..Len(hist)

(***************************************************************************)
(* C1: every line ending in ':' directly followed by a '- ' or '* ' line   *)
(* gets exactly one "Missing blank line before list" issue with its line   *)
(* number in report mode; fix mode puts exactly one empty line directly    *)
(* after it, and the next run on the rewritten file (either mode) reports  *)
(* no such issue at that line.                                             *)
(***************************************************************************)
T_C1 ==
    \A n \in Runs :
        LET h == hist[n]
            L == LinesBefore(h)
            O == LinesAfter(h)
        IN  \A j \in 1..Len(L) :
                ColonBeforeList(L, j) =>
                    /\ ~h.fix => Count(IssuesOf(h), j, Msg1) = 1
                    /\ h.fix =>
                        /\ Len(O) >= Pos(L, j) + 2
                        /\ Strip(O[Pos(L, j)]) = Strip(L[j])
                        /\ O[Pos(L, j) + 1] = <<>>
                        /\ Strip(O[Pos(L, j) + 2]) = Strip(L[j + 1])
                        /\ n + 1 \in Runs =>
                              Count(IssuesOf(hist[n + 1]), Pos(L, j), Msg1) = 0

W_C1 ==
    /\ Len(hist) = 2
    /\ hist[1].fix
    /\ ~hist[2].fix
    /\ \E j \in 1..Len(LinesBefore(hist[1])) : ColonBeforeList(LinesBefore(hist[1]), j)
    /\ CountMsg(IssuesOf(hist[1]), Msg1) >= 1

(***************************************************************************)
(* C2 as stated: a fix-mode run directly after a fix-mode run returns no   *)
(* issues and leaves the file as it is.                                    *)
(***************************************************************************)
CE_C2 ==
    \A n \in Runs :
        (n + 1 \in Runs /\ hist[n].fix /\ hist[n + 1].fix) =>
            /\ IssuesOf(hist[n + 1]) = <<>>
            /\ hist[n + 1].after = hist[n + 1].before

(***************************************************************************)
(* C2 amended: a fix-mode run directly after a fix-mode run leaves the     *)
(* file as it is and returns only "Configuration parameter may be missing  *)
(* Type/Default/Impact details" issues, none of checks 1, 2, 2b, 2c.       *)
(***************************************************************************)
T_C2 ==
    \A n \in Runs :
        (n + 1 \in Runs /\ hist[n].fix /\ hist[n + 1].fix) =>
            /\ \A x \in 1..Len(IssuesOf(hist[n + 1])) : IssuesOf(hist[n + 1])[x].msg = Msg3
            /\ hist[n + 1].after = hist[n + 1].before
            /\ \A o \in 1..Len(hist[n + 1].out) : hist[n + 1].out[o].tag # "fixed"

W_C2 ==
    /\ Len(hist) = 2
    /\ hist[1].fix
    /\ hist[2].fix
    /\ hist[1].after # hist[1].before
    /\ IssuesOf(hist[2]) # <<>>

(***************************************************************************)
(* C3 as stated: in fix mode a blank line between a numbered bold header   *)
(* and a 3-space sub-bullet is reported as "Extra blank line between       *)
(* numbered item and sub-bullets" and removed, so that the header is       *)
(* directly followed by the sub-bullet in the rewritten file.              *)
(***************************************************************************)
CE_C3 ==
    \A n \in Runs :
        LET h == hist[n]
            L == LinesBefore(h)
            O == LinesAfter(h)
        IN  h.fix =>
                \A j \in 1..Len(L) :
                    BlankSandwich(L, j) =>
                        /\ CountMsg(IssuesOf(h), Msg2c) >= 1
                        /\ \E p \in 1..(Len(O) - 1) :
                              /\ HeaderMatch(Strip(O[p]))
                              /\ Strip(O[p + 1]) = Strip(L[j + 1])

(***************************************************************************)
(* C4 as stated: in fix mode every 3-space sub-bullet whose line two rows  *)
(* above in the input is a numbered bold header is rewritten with a        *)
(* 4-space indent, whatever fired on earlier lines.                        *)
(***************************************************************************)
CE_C4 ==
    \A n \in Runs :
        LET h == hist[n]
            L == LinesBefore(h)
            O == LinesAfter(h)
        IN  h.fix =>
                \A j \in 1..Len(L) :
                    SubBulletUnderHeader(L, j) =>
                        /\ Len(O) >= Pos(L, j)
                        /\ O[Pos(L, j)] = Sp4 \o Drop(L[j], 3)

(***************************************************************************)
(* C5 as stated: in report mode a line gets the "Configuration parameter   *)
(* may be missing Type/Default/Impact details" issue exactly when it is a  *)
(* numbered bold header whose next line exists and is neither blank nor a  *)
(* 4-space-indented '- Type:' sub-bullet.                                  *)
(***************************************************************************)
CE_C5 ==
    \A n \in Runs :
        LET h == hist[n]
            L == LinesBefore(h)
        IN  ~h.fix =>
                \A j \in 1..Len(L) :
                    (Count(IssuesOf(h), j, Msg3) >= 1) <=> HeaderWithoutDetails(L, j)

(***************************************************************************)
(* C6: frame of fix mode.  The rewritten file is the input, line by line   *)
(* and in order, with an empty line added directly behind each line that   *)
(* ends in ':' before a list, and with the indent of 2-space labelled      *)
(* bullets and 3-space sub-bullets replaced by 4 spaces where the          *)
(* indentation issue was reported; every other line is unchanged, none is  *)
(* dropped, duplicated or reordered.                                       *)
(***************************************************************************)
T_C6 ==
    \A n \in Runs :
        LET h == hist[n]
            L == LinesBefore(h)
            O == LinesAfter(h)
        IN  h.fix =>
                /\ Len(O) = Pos(L, Len(L) + 1) - 1
                /\ \A j \in 1..Len(L) :
                      LET p == Pos(L, j)
                      IN  /\ \/ O[p] = L[j]
                             \/ /\ StartsWith(L[j], Sp2Dash)
                                /\ O[p] = Sp4 \o Drop(L[j], 2)
                                /\ Count(IssuesOf(h), p, Msg2) = 1
                             \/ /\ StartsWith(L[j], Sp3Dash)
                                /\ O[p] = Sp4 \o Drop(L[j], 3)
                                /\ Count(IssuesOf(h), p, Msg2b) = 1
                          /\ ColonBeforeList(L, j) => O[p + 1] = <<>>

W_C6 ==
    /\ Len(hist) >= 1
    /\ hist[1].fix
    /\ Len(LinesAfter(hist[1])) > Len(LinesBefore(hist[1]))
    /\ CountMsg(IssuesOf(hist[1]), Msg2b) >= 1
    /\ \E j \in 1..Len(LinesBefore(hist[1])) :
          LinesBefore(hist[1])[j] = LText

(***************************************************************************)
(* C7 as stated: the N of "Fixed N issues in <path>" is the number of      *)
(* issues fixed in that file, detection-only findings not counted, and the *)
(* summary says fixes were applied only if a file was modified.            *)
(***************************************************************************)
CE_C7 ==
    \A n \in Runs :
        LET h == hist[n]
        IN  h.fix =>
                \A o \in 1..Len(h.out) :
                    /\ h.out[o].tag = "fixed" =>
                          h.out[o].n = Len(IssuesOf(h)) - CountMsg(IssuesOf(h), Msg3)
                    /\ h.out[o].tag = "fixed_total" => h.after # h.before

(***************************************************************************)
(* C10 as stated: on the same content, fix mode finds the issues report    *)
(* mode finds: as many, of the same kinds, in the same order.              *)
(***************************************************************************)
CE_C10 ==
    \A n \in Runs :
        (n + 1 \in Runs /\ ~hist[n].fix /\ hist[n + 1].fix) =>
            LET rep == IssuesOf(hist[n])
                fixd == IssuesOf(hist[n + 1])
            IN  /\ Len(rep) = Len(fixd)
                /\ \A x \in 1..Len(rep) : rep[x].msg = fixd[x].msg

(***************************************************************************)
(* Vocabulary of the properties of a whole run.                            *)
(***************************************************************************)
RECURSIVE SumIssues(_)
SumIssues(rs) == IF rs = <<>> THEN 0 ELSE Len(Head(rs).issues) + SumIssues(Tail(rs))

FilesWithIssues(rs) == Cardinality({x \in 1..Len(rs) : rs[x].issues # <<>>})

\* the '.md' files of the directory, in walk order
RECURSIVE MdFiles(_, _)
MdFiles(files, from) ==
    IF from > Len(files) THEN <<>>
    ELSE (IF files[from].md THEN <<from>> ELSE <<>>) \o MdFiles(files, from + 1)

\* validate_file on f runs into an I/O error: the read fails, or fix mode
\* has something to write and the write fails
IOFails(f, fix) ==
    \/ f.io = "noread"
    \/ /\ f.io = "nowrite"
       /\ fix
       /\ \E j \in 1..Len(Split(f.content)) :
             \/ ColonBeforeList(Split(f.content), j)
             \/ StartsWith(Split(f.content)[j], Sp2Dash) /\ LabelSearch(Split(f.content)[j])

(***************************************************************************)
(* C8: the process exits 0 whenever --fix is given and whenever report     *)
(* mode finds no issue in the scanned files (an invalid path scans no file *)
(* and finds nothing); it exits 1 exactly when report mode finds at least  *)
(* one issue.  Report mode never changes a file.                           *)
(***************************************************************************)
T_C8 ==
    /\ ~fix_mode => fs = before
    /\ pc = "exited" =>
          /\ fix_mode => exit_code = 0
          /\ ~fix_mode => exit_code = (IF SumIssues(results) > 0 THEN 1 ELSE 0)
          /\ target = "invalid" => results = <<>> /\ exit_code = 0

W_C8 ==
    /\ pc = "exited"
    /\ ~fix_mode
    /\ target = "dir"
    /\ Len(results) = 2
    /\ results[1].issues = <<>>
    /\ results[2].issues # <<>>
    /\ exit_code = 1

(***************************************************************************)
(* C9: an I/O failure inside validate_file yields exactly one synthetic    *)
(* issue for that file and nothing else; every '.md' file of the directory *)
(* is still validated exactly once, in order, and the failed file counts   *)
(* as one file with issues and one issue in the totals.                    *)
(***************************************************************************)
T_C9 ==
    /\ \A x \in 1..Len(results) :
          IOFails(before[results[x].file], fix_mode) =>
              /\ results[x].issues = <<ErrorIssue>>
              /\ fs[results[x].file] = before[results[x].file]
    /\ (target = "dir" /\ pc \in {"summary", "exited"}) =>
          /\ [x \in 1..Len(results) |-> results[x].file] = MdFiles(before, 1)
          /\ total_issues = SumIssues(results)
          /\ files_with_issues = FilesWithIssues(results)

W_C9 ==
    /\ pc = "exited"
    /\ target = "dir"
    /\ fix_mode
    /\ Len(results) = 2
    /\ before[results[1].file].io = "nowrite"
    /\ results[1].issues = <<ErrorIssue>>
    /\ Len(results[2].issues) = 1
    /\ results[2].issues # <<ErrorIssue>>
    /\ total_issues = 2
    /\ files_with_issues = 2

====
